---- MODULE Spec2Model ----
(***************************************************************************)
(* MomentSync: the moment page's optimistic placeholder reconciliation     *)
(* (assets/js/moment.js), the React WebSocketProvider's reconnecting link  *)
(* and message routing (frontend/src/contexts/WebSocketContext.js) with    *)
(* the Moment page that uses it, the AuthProvider above it                 *)
(* (frontend/src/contexts/AuthContext.js), the token refresh of the axios  *)
(* instance and the endpoint builders (frontend/src/services/api.js), and  *)
(* the server's channel registry.                                          *)
(***************************************************************************)
EXTENDS Integers, Sequences, FiniteSets, TLC

\* ------------------------------------------------------------------ bounds
MaxTemp == 2      \* local adds (shutter clicks) per run
MaxRecv == 3      \* envelopes received on the moment page per run
MaxOpen == 2      \* open events of the moment page's socket per run
MaxLive == 1      \* WebSocket objects that are not CLOSED at one time
MaxSockets == 2   \* the same, where the provider is followed on its own
MaxAttempts == 5  \* cap of the reconnectAttempts counter
MaxSend == 2      \* sendMessage calls per run
MaxEvents == 2    \* messages the provider's onmessage handles per run
MaxBroadcast == 2 \* envelopes the channel registry broadcasts per run
MaxAge == 2       \* seconds the model follows a typing indicator for
TypingWindow == 1 \* seconds after which a typing indicator counts as stale
MaxErrors == 1    \* error events per socket owner and run
MaxRequests == 2  \* requests made through the axios instance per run

\* ------------------------------------------------------- moment page state
VARIABLES
    tempQueue,    \* moment.js:313  FIFO of pending tempIDs
    tempID,       \* moment.js:314  next temporary id
    moments,      \* children of #moments in document order (first = newest prepended)
    hashedName,   \* moment.js:360  implicit global written by uploadBlobByStream
    uploads,      \* storage calls started by uploadBlobByStream, in call order
    sent,         \* envelopes the page passed to socket.send, in order
    json,         \* the envelope handled by the last socket.onmessage
    nRecv,        \* how many envelopes socket.onmessage has handled
    addLog,       \* history: values of the add_moment envelopes received, in order
    created,      \* history: nRecv at each createTempLoadingImage call
    consumed,     \* history: per tempID, how often its element was relabelled
    pageSocket,   \* moment.js:388  readyState of the ReconnectingWebSocket
    nOpen,        \* how many open events the page's socket has had
    uncaught      \* how many calls of socket.onmessage ended in an exception

momentVars == <<tempQueue, tempID, moments, hashedName, uploads, sent, json,
                nRecv, addLog, created, consumed, pageSocket, nOpen, uncaught>>

\* ---------------------------------------------- WebSocketProvider state
VARIABLES
    isAuthenticated,    \* AuthContext.js:50  state.isAuthenticated
    user,               \* AuthContext.js:51  state.user: 0 is null, 1 an object
    socket,             \* WebSocketContext.js:9   state: 0 is null, else a socket
    isConnected,        \* WebSocketContext.js:10  state
    reconnectAttempts,  \* WebSocketContext.js:11  state
    timer,              \* WebSocketContext.js:13  the timeout reconnectTimeoutRef holds
    sockets,            \* the WebSocket objects that are not CLOSED
    effectSocket,       \* the socket value held by the pending effect cleanup
    lastClose,          \* history: the code of the last close event handled
    mounted,            \* part_004:16  the Moment page is mounted
    mountSocket,        \* the socket value held by the page's mount effect
    nSend,              \* how many times sendMessage has been called
    calls               \* history: per sendMessage call, the readyState it saw

linkVars == <<isAuthenticated, user, socket, isConnected, reconnectAttempts,
              timer, sockets, effectSocket, lastClose, mounted, mountSocket,
              nSend, calls>>

\* ------------------------------- WebSocketProvider and Moment page: inbound
VARIABLES
    data,           \* WebSocketContext.js:50  what the last onmessage handled
    nEvents,        \* how many messages onmessage has handled
    typingUsers,    \* part_004:28  state of the Moment page
    invalidations,  \* how often an event listener of the page has invalidated
                    \* the moment query
    lastTyping,     \* history: per identity, is_typing of the last user-typing
                    \* event the mounted page was dispatched
    typingAge       \* history: per identity, seconds since a user-typing event
                    \* with is_typing true was last dispatched to the page

routerVars == <<data, nEvents, typingUsers, invalidations, lastTyping, typingAge>>

\* ------------------------------------------- Channel Registry (server)
VARIABLES
    members,        \* the links that have joined the channel
    delivered,      \* per link, the envelopes delivered to it, in order
    lastBroadcast   \* the envelope broadcast last; n counts the broadcasts

serverVars == <<members, delivered, lastBroadcast>>

\* ------------------------------------------------ AuthProvider state
VARIABLES
    token,          \* AuthContext.js:52  state.token: 0 is null, 1 a token
    loading,        \* AuthContext.js:53  state.loading
    authError,      \* AuthContext.js:54  state.error: 0 is null, 1 a message
    storedToken,    \* localStorage 'token': 0 is absent, 1 a token
    storedRefresh,  \* localStorage 'refreshToken': 0 is absent, 1 a token
    initAuth        \* AuthContext.js:61-76  where initAuth is

authVars == <<token, loading, authError, storedToken, storedRefresh, initAuth>>

\* ------------------------------------- the page's location and endpoints
VARIABLES
    location,       \* window.location: protocol, host, pathname
    endpoint,       \* moment.js:387  the endpoint of the moment page
    wsUrl,          \* WebSocketContext.js:31  the url connectWebSocket built last
    connectUrl      \* api.js:202  the url websocketAPI.connect built last

locVars == <<location, endpoint, wsUrl, connectUrl>>

\* ----------------------------------------------- requests through api
VARIABLES
    requests        \* api.js:6  per request made through the axios instance

apiVars == <<requests>>

\* ------------------------------------------------ error events, echoes
VARIABLES
    pageErrors,     \* moment.js:447-449  how often socket.onerror has run
    linkErrors,     \* WebSocketContext.js:66-69  how often onerror has run
    echoed          \* how many of the add_moment envelopes the page sent
                    \* have been broadcast back to it

errorVars == <<pageErrors, linkErrors>>

restVars == <<locVars, apiVars, errorVars, echoed>>

extVars == <<authVars, restVars>>

vars == <<momentVars, linkVars, routerVars, serverVars, extVars>>

\* JavaScript's undefined (Array.prototype.shift on an empty array, an unset global)
Undefined == -1

Range(s) == {s[i] : i \in DOMAIN s}

\* moment.js:320  moment.id = "tempmoment_" + tempID++ ; moment.js:396 the lookup key
TempName(k) ==
    IF k = Undefined THEN "tempmoment_undefined" ELSE "tempmoment_" \o ToString(k)

\* moment.js:338,360  MD5.hex of a random token: an opaque 32-digit identifier,
\* never of the form tempmoment_k
MD5Name(n) == "h" \o ToString(n)

\* identifiers an envelope may carry: the names of this page's own uploads
\* and one that only another client uploaded
Values == {MD5Name(n) : n \in 0 .. MaxTemp}

\* moment.js:320  the post-increment of tempID
NextTempID_Stuck(t) == t
NextTempID(t) == t + 1

\* moment.js:396  tempQueue.shift(): the value returned
ShiftValue_Last(q) == IF q = <<>> THEN Undefined ELSE q[Len(q)]
ShiftValue(q) == IF q = <<>> THEN Undefined ELSE Head(q)

\* moment.js:396  tempQueue.shift(): the array left behind
ShiftRest_Keep(q) == q
ShiftRest(q) == IF q = <<>> THEN <<>> ELSE Tail(q)

\* moment.js:324,406  momentContainer.prepend(moment)
Prepend_Overwrite(e, ms) == IF ms = <<>> THEN <<e>> ELSE <<e>> \o Tail(ms)
Prepend(e, ms) == <<e>> \o ms

\* document.getElementById: index of the first element in document order
\* bearing the id, 0 (null) when there is none
getElementById(ms, id) ==
    IF \E j \in DOMAIN ms : ms[j].id = id
    THEN CHOOSE j \in DOMAIN ms : ms[j].id = id /\ \A i \in 1 .. (j - 1) : ms[i].id # id
    ELSE 0

RemoveAt(ms, j) == [i \in 1 .. (Len(ms) - 1) |-> IF i < j THEN ms[i] ELSE ms[i + 1]]

\* moment.js:433-438
removeElement(ms, id) ==
    LET j == getElementById(ms, id)
    IN  IF j # 0 THEN RemoveAt(ms, j) ELSE ms

\* moment.js:316-325  the element createTempLoadingImage builds; temp is the
\* node's identity (the tempID it was created under), img the picture shown
Placeholder_NextId(k) == [temp |-> k, id |-> TempName(k + 1), img |-> "Uploading"]
Placeholder(k) == [temp |-> k, id |-> TempName(k), img |-> "Uploading"]

\* moment.js:398-399  the placeholder rewritten in place
Relabel_KeepId(e, v) == [e EXCEPT !.img = "Loading"]
Relabel(e, v) == [e EXCEPT !.id = v, !.img = "Loading"]

\* moment.js:401-405  the element built for an unmatched add_moment
NewMoment(v) == [temp |-> Undefined, id |-> v, img |-> "Loading"]

\* moment.js:313-314,360,388
MomentInit ==
    /\ tempQueue = <<>>
    /\ tempID = 0
    /\ moments = <<>>
    /\ hashedName = "undefined"
    /\ uploads = <<>>
    /\ sent = <<>>
    /\ json = [type |-> "none", value |-> "none"]
    /\ nRecv = 0
    /\ addLog = <<>>
    /\ created = <<>>
    /\ consumed = [k \in 0 .. (MaxTemp - 1) |-> 0]
    /\ pageSocket = "CONNECTING"
    /\ nOpen = 0
    /\ uncaught = 0

\* moment.js:316-325
createTempLoadingImage ==
    /\ tempQueue' = Append(tempQueue, tempID)
    /\ tempID' = NextTempID(tempID)
    /\ moments' = Prepend(Placeholder(tempID), moments)
    /\ created' = Append(created, nRecv)

\* moment.js:337-362  up to the asynchronous storage call: the blob is stored
\* under the value hashedName has at the call
uploadBlobByStream(name) ==
    /\ hashedName' = name
    /\ uploads' = Append(uploads, [key |-> name, status |-> "inflight"])

\* moment.js:304-309 (and 99-100): the shutter / file-input handler
ShutterClick ==
    /\ tempID < MaxTemp
    /\ Len(uploads) < MaxTemp
    /\ \E name \in {MD5Name(Len(uploads))} :
          /\ createTempLoadingImage
          /\ uploadBlobByStream(name)
    /\ UNCHANGED <<sent, json, nRecv, addLog, consumed, pageSocket, nOpen, uncaught>>
    /\ UNCHANGED <<linkVars, routerVars, serverVars, extVars>>

\* moment.js:368-372  the envelope the completion callback sends: value is
\* read from the global when the callback runs
CallbackEnvelope_Init(u) == [type |-> "init", value |-> hashedName, upload |-> u]
CallbackEnvelope(u) == [type |-> "add_moment", value |-> hashedName, upload |-> u]

\* moment.js:362-376  completion callback of upload u, error set or not
UploadDone(u, error) ==
    /\ u \in DOMAIN uploads
    /\ uploads[u].status = "inflight"
    /\ uploads' = [uploads EXCEPT ![u].status = IF error THEN "failed" ELSE "ok"]
    /\ sent' = IF error THEN sent ELSE Append(sent, CallbackEnvelope(u))
    /\ UNCHANGED <<tempQueue, tempID, moments, hashedName, json, nRecv, addLog,
                   created, consumed, pageSocket, nOpen, uncaught>>
    /\ UNCHANGED <<linkVars, routerVars, serverVars, extVars>>

\* moment.js:394-407
OnAddMoment(v) ==
    LET k == ShiftValue(tempQueue)
        j == getElementById(moments, TempName(k))
    IN  /\ tempQueue' = ShiftRest(tempQueue)
        /\ IF j # 0
           THEN /\ moments' = [moments EXCEPT ![j] = Relabel(moments[j], v)]
                /\ consumed' = IF k \in DOMAIN consumed
                               THEN [consumed EXCEPT ![k] = @ + 1]
                               ELSE consumed
           ELSE /\ moments' = Prepend(NewMoment(v), moments)
                /\ consumed' = consumed
        /\ addLog' = Append(addLog, v)
        /\ UNCHANGED <<tempID, created>>

\* moment.js:426-428
OnDeleteMoment(v) ==
    /\ moments' = removeElement(moments, v)
    /\ UNCHANGED <<tempQueue, tempID, addLog, created, consumed>>

\* moment.js:394,426  the branch socket.onmessage takes for a type
Branch_ElseDelete(type) == IF type = "add_moment" THEN "add" ELSE "delete"
Branch(type) ==
    IF type = "add_moment" THEN "add"
    ELSE IF type = "delete_moment" THEN "delete"
    ELSE "none"

\* moment.js:391-431  socket.onmessage for a message that parses; messages
\* arrive while the socket is open
PageOnMessage(msg) ==
    /\ pageSocket = "OPEN"
    /\ json' = msg
    /\ nRecv' = nRecv + 1
    /\ IF Branch(msg.type) = "add" THEN OnAddMoment(msg.value)
       ELSE IF Branch(msg.type) = "delete" THEN OnDeleteMoment(msg.value)
       ELSE UNCHANGED <<tempQueue, tempID, moments, addLog, created, consumed>>
    /\ UNCHANGED <<hashedName, uploads, sent, pageSocket, nOpen, uncaught>>

\* a message from the channel, of which a run follows MaxRecv
OnMessage(msg) ==
    /\ nRecv < MaxRecv
    /\ PageOnMessage(msg)
    /\ UNCHANGED <<linkVars, routerVars, serverVars, extVars>>

\* moment.js:392  JSON.parse throws on a message that does not parse, and
\* socket.onmessage has no try: the call ends in an uncaught exception
\* before anything else runs
OnUnparseable ==
    /\ pageSocket = "OPEN"
    /\ nRecv < MaxRecv
    /\ json' = [type |-> "unparseable", value |-> "none"]
    /\ nRecv' = nRecv + 1
    /\ uncaught' = uncaught + 1
    /\ UNCHANGED <<tempQueue, tempID, moments, hashedName, uploads, sent, addLog,
                   created, consumed, pageSocket, nOpen>>
    /\ UNCHANGED <<linkVars, routerVars, serverVars, extVars>>

\* moment.js:440-446  socket.onopen: the init envelope with the username
PageSocketOpens ==
    /\ pageSocket = "CONNECTING"
    /\ nOpen < MaxOpen
    /\ pageSocket' = "OPEN"
    /\ nOpen' = nOpen + 1
    /\ sent' = Append(sent, [type |-> "init", value |-> "username", upload |-> 0])
    /\ UNCHANGED <<tempQueue, tempID, moments, hashedName, uploads, json, nRecv,
                   addLog, created, consumed, uncaught>>
    /\ UNCHANGED <<linkVars, routerVars, serverVars, extVars>>

\* moment.js:450-452  socket.onclose does nothing; the ReconnectingWebSocket
\* (moment.js:388) connects again
PageSocketCloses ==
    /\ pageSocket = "OPEN"
    /\ pageSocket' = "CONNECTING"
    /\ UNCHANGED <<tempQueue, tempID, moments, hashedName, uploads, sent, json,
                   nRecv, addLog, created, consumed, nOpen, uncaught>>
    /\ UNCHANGED <<linkVars, routerVars, serverVars, extVars>>

ReceiveAdd == \E v \in Values : OnMessage([type |-> "add_moment", value |-> v])

ReceiveDelete == \E v \in Values : OnMessage([type |-> "delete_moment", value |-> v])

\* a type socket.onmessage has no branch for
ReceiveOther == \E v \in Values : OnMessage([type |-> "media_added", value |-> v])

UploadSucceeds == \E u \in DOMAIN uploads : UploadDone(u, FALSE)

UploadFails == \E u \in DOMAIN uploads : UploadDone(u, TRUE)

\* the add_moment envelopes the page has sent, in order
OwnAdds == SelectSeq(sent, LAMBDA m : m.type = "add_moment")

\* moment.js:391-407  the channel broadcasts the page's own add_moment
\* envelopes back to it, in the order they were sent
EchoArrives ==
    /\ echoed < Len(OwnAdds)
    /\ PageOnMessage([type |-> "add_moment", value |-> OwnAdds[echoed + 1].value])
    /\ echoed' = echoed + 1
    /\ UNCHANGED <<linkVars, routerVars, serverVars, authVars, locVars, apiVars,
                   errorVars>>

MomentNext ==
    \/ ShutterClick
    \/ UploadSucceeds
    \/ UploadFails
    \/ ReceiveAdd
    \/ ReceiveDelete
    \/ ReceiveOther
    \/ OnUnparseable
    \/ PageSocketOpens
    \/ PageSocketCloses

\* ------------------------------------------------------ WebSocketProvider

\* WebSocketContext.js:12
maxReconnectAttempts == 5

\* close codes: 1000 is a normal closure, 1006 stands for every other code
NormalClosure == 1000
AbnormalClosure == 1006

\* References to WebSocket objects: Null is null, a number in DOMAIN sockets
\* a socket that is not CLOSED, Dead any socket whose close event has been
\* handled (its readyState stays CLOSED and close() on it does nothing, so
\* such sockets need not be told apart).
Null == 0
Dead == -1

\* The values of socket and reconnectAttempts a render's closures hold
\* (WebSocketContext.js:9-11): connectWebSocket, scheduleReconnect,
\* disconnectWebSocket and the handlers they install read these, not the
\* current state.
Env(sock, attempts) == [socket |-> sock, attempts |-> attempts]

\* WebSocketContext.js:13  useRef(null); a cleared or fired timeout is inert
NoTimer == [pending |-> FALSE, env |-> Env(Null, 0), delay |-> 0]

\* WebSocketContext.js:79  Math.min(1000 * Math.pow(2, n), 30000), in ms
BaseDelay == 1000
MaxDelay == 30000

RECURSIVE Pow2(_)
Pow2(n) == IF n = 0 THEN 1 ELSE 2 * Pow2(n - 1)

Min(a, b) == IF a < b THEN a ELSE b

Delay(n) == Min(BaseDelay * Pow2(n), MaxDelay)

\* WebSocketContext.js:79-85  the timeout scheduleReconnect stores in the
\* ref: delay is computed from the reconnectAttempts of the closure
ReconnectTimer_None(env) == NoTimer
ReconnectTimer(env) == [pending |-> TRUE, env |-> env, delay |-> Delay(env.attempts)]

\* WebSocketContext.js:33-71  new WebSocket(wsUrl) with the handlers of env
\* sent: what has been passed to its send, in order
NewSocket(env) ==
    [readyState |-> "CONNECTING", env |-> env, established |-> FALSE, sent |-> <<>>]

\* a place in sockets that holds no socket
ClosedSocket ==
    [readyState |-> "CLOSED", env |-> Env(Null, 0), established |-> FALSE, sent |-> <<>>]

FreeSlots(socks) == {s \in DOMAIN socks : socks[s].readyState = "CLOSED"}

\* socket?.readyState of a reference
ReadyState(socks, ref) == IF ref \in DOMAIN socks THEN socks[ref].readyState ELSE "CLOSED"

\* the provider's React state, the ref and the sockets, as one value
LinkState ==
    [socket |-> socket, isConnected |-> isConnected,
     reconnectAttempts |-> reconnectAttempts, timer |-> timer, sockets |-> sockets,
     effectSocket |-> effectSocket, mountSocket |-> mountSocket, nSend |-> nSend,
     calls |-> calls]

SetLink(st) ==
    /\ socket' = st.socket
    /\ isConnected' = st.isConnected
    /\ reconnectAttempts' = st.reconnectAttempts
    /\ timer' = st.timer
    /\ sockets' = st.sockets
    /\ effectSocket' = st.effectSocket
    /\ mountSocket' = st.mountSocket
    /\ nSend' = st.nSend
    /\ calls' = st.calls

\* WebSocket.close(): a socket not yet closing starts closing
CloseCall(socks, ref) ==
    IF ReadyState(socks, ref) \in {"CONNECTING", "OPEN"}
    THEN [socks EXCEPT ![ref].readyState = "CLOSING"]
    ELSE socks

\* WebSocketContext.js:28  connectWebSocket gets past its early return
Connects(st, env) == ~(env.socket # Null /\ ReadyState(st.sockets, env.socket) = "OPEN")

\* WebSocketContext.js:27-72
connectWebSocket(st, env) ==
    IF ~Connects(st, env)
    THEN st
    ELSE LET s == CHOOSE x \in FreeSlots(st.sockets) :
                      \A y \in FreeSlots(st.sockets) : x <= y
         IN  [st EXCEPT !.sockets[s] = NewSocket(env), !.socket = s]

\* WebSocketContext.js:88-98  with sock the socket value its render holds
disconnectWebSocket(st, sock) ==
    [st EXCEPT !.timer = NoTimer,
               !.sockets = IF sock # Null THEN CloseCall(@, sock) ELSE @,
               !.socket = IF sock # Null THEN Null ELSE @,
               !.isConnected = FALSE]

\* WebSocketContext.js:61  the guard of onclose
ShouldReconnect(code, attempts) ==
    code # NormalClosure /\ attempts < maxReconnectAttempts

\* WebSocketContext.js:74-86
scheduleReconnect(st, env) ==
    [st EXCEPT !.timer = ReconnectTimer(env),
               !.reconnectAttempts = @ + 1]

\* WebSocketContext.js:57-64
onclose(st, env, code) ==
    LET st1 == [st EXCEPT !.isConnected = FALSE]
    IN  IF ShouldReconnect(code, env.attempts)
        THEN scheduleReconnect(st1, env)
        ELSE st1

\* an envelope passed to send: n is the sendMessage call it came from, 0
\* for one sent without sendMessage
Envelope(type, n) == [type |-> type, n |-> n]

\* WebSocketContext.js:35-46  onopen of socket s
onopen_NoAuth(st, s) == [st EXCEPT !.isConnected = TRUE, !.reconnectAttempts = 0]
onopen(st, s) ==
    [st EXCEPT !.isConnected = TRUE,
               !.reconnectAttempts = 0,
               !.sockets[s].sent = Append(@, Envelope("auth", 0))]

\* WebSocketContext.js:170  the test of sendMessage on the socket its render holds
CanSend_NotClosed(socks, sock) == sock # Null /\ ReadyState(socks, sock) # "CLOSED"
CanSend(socks, sock) == sock # Null /\ ReadyState(socks, sock) = "OPEN"

\* what a sendMessage call saw: no socket, or the socket's readyState
Seen(socks, sock) == IF sock = Null THEN "null" ELSE ReadyState(socks, sock)

\* WebSocketContext.js:169-176  with sock the socket value its render holds;
\* the else branch warns and keeps nothing
sendMessage(st, sock, type) ==
    LET n == st.nSend + 1
        st1 == [st EXCEPT !.nSend = n, !.calls = Append(@, Seen(st.sockets, sock))]
    IN  IF CanSend(st.sockets, sock)
        THEN [st1 EXCEPT !.sockets[sock].sent = Append(@, Envelope(type, n))]
        ELSE st1

\* WebSocketContext.js:178-183
joinMoment(st, sock) == sendMessage(st, sock, "join_moment")

\* WebSocketContext.js:185-190
leaveMoment(st, sock) == sendMessage(st, sock, "leave_moment")

\* part_004:92-96  the cleanup of the page's mount effect
unmountMoment(st) == [leaveMoment(st, st.mountSocket) EXCEPT !.mountSocket = Null]

\* socket s has closed: every reference to it is a reference to a closed socket
ForgetRef(ref, s) == IF ref = s THEN Dead ELSE ref

ForgetEnv(env, s) == [env EXCEPT !.socket = ForgetRef(@, s)]

Forget(st, s) ==
    [st EXCEPT !.socket = ForgetRef(@, s),
               !.timer.env = ForgetEnv(@, s),
               !.sockets = [x \in DOMAIN @ |->
                               IF x = s THEN ClosedSocket
                               ELSE [@[x] EXCEPT !.env = ForgetEnv(@, s)]],
               !.effectSocket = ForgetRef(@, s),
               !.mountSocket = ForgetRef(@, s)]

\* WebSocketContext.js:15-25  the effect on [isAuthenticated, user]: the
\* previous run's cleanup, then this render's body
\* identities: the local user (user.username) and two others
LocalUser == "me"
Users == {"me", "u1", "u2"}

\* part_004:28  an unmounted page's state is gone; the next mount starts from
\* useState([])
PageStateLost ==
    /\ typingUsers' = <<>>
    /\ lastTyping' = [u \in Users |-> "none"]
    /\ typingAge' = [u \in Users |-> 0]

\* App.js:45-51  a Moment page that is no longer routed to unmounts first
AuthEffect(auth, usr) ==
    LET env == Env(socket, reconnectAttempts)
        leaves == mounted /\ ~(auth /\ usr # 0)
        st0 == IF leaves THEN unmountMoment(LinkState) ELSE LinkState
        st1 == disconnectWebSocket(st0, effectSocket)
    IN  /\ (auth /\ usr # 0 /\ Connects(st1, env)) => FreeSlots(st1.sockets) # {}
        /\ leaves => nSend < MaxSend
        /\ mounted' = (mounted /\ ~leaves)
        /\ SetLink([(IF auth /\ usr # 0
                     THEN connectWebSocket(st1, env)
                     ELSE disconnectWebSocket(st1, env.socket))
                    EXCEPT !.effectSocket = env.socket])
        /\ isAuthenticated' = auth
        /\ user' = usr
        /\ IF leaves THEN PageStateLost ELSE UNCHANGED <<typingUsers, lastTyping, typingAge>>
        /\ UNCHANGED <<lastClose, data, nEvents, invalidations>>
        /\ UNCHANGED <<momentVars, serverVars, restVars>>

\* ------------------------------------------------------------ AuthProvider

\* AuthContext.js:58  the reducer's state
AuthState ==
    [isAuthenticated |-> isAuthenticated, user |-> user, token |-> token,
     loading |-> loading, error |-> authError]

\* AuthContext.js:7-47; a user object is 1, and so is the object UPDATE_USER
\* spreads state.user and the payload into
authReducer(state, action) ==
    CASE action.type = "LOGIN_START" ->
             [state EXCEPT !.loading = TRUE, !.error = 0]
      [] action.type = "LOGIN_SUCCESS" ->
             [state EXCEPT !.loading = FALSE, !.isAuthenticated = TRUE,
                           !.user = action.user, !.token = action.token, !.error = 0]
      [] action.type = "LOGIN_FAILURE" ->
             [state EXCEPT !.loading = FALSE, !.isAuthenticated = FALSE,
                           !.user = 0, !.token = 0, !.error = action.payload]
      [] action.type = "LOGOUT" ->
             [state EXCEPT !.isAuthenticated = FALSE, !.user = 0, !.token = 0,
                           !.error = 0]
      [] action.type = "UPDATE_USER" -> [state EXCEPT !.user = 1]
      [] action.type = "CLEAR_ERROR" -> [state EXCEPT !.error = 0]
      [] OTHER -> state

\* the actions the provider dispatches
LOGIN_START == [type |-> "LOGIN_START"]
LOGIN_SUCCESS == [type |-> "LOGIN_SUCCESS", user |-> 1, token |-> 1]
LOGIN_FAILURE == [type |-> "LOGIN_FAILURE", payload |-> 1]
LOGOUT == [type |-> "LOGOUT"]
UPDATE_USER == [type |-> "UPDATE_USER"]
CLEAR_ERROR == [type |-> "CLEAR_ERROR"]

\* the state after the actions a handler dispatches in a row
RECURSIVE Reduce(_, _)
Reduce(state, actions) ==
    IF actions = <<>> THEN state
    ELSE Reduce(authReducer(state, Head(actions)), Tail(actions))

\* LOGIN_SUCCESS and UPDATE_USER make user a new object
NewUser(actions) ==
    \E i \in DOMAIN actions : actions[i].type \in {"LOGIN_SUCCESS", "UPDATE_USER"}

\* AuthContext.js:58  dispatch: the provider re-renders with the reduced
\* state, and the effect of WebSocketProvider (WebSocketContext.js:15-25)
\* re-runs when isAuthenticated or user is not what it was
Dispatch(actions) ==
    LET s == Reduce(AuthState, actions)
    IN  /\ token' = s.token
        /\ loading' = s.loading
        /\ authError' = s.error
        /\ IF s.isAuthenticated # isAuthenticated \/ s.user # user \/ (NewUser(actions) /\ s.user # 0)
           THEN AuthEffect(s.isAuthenticated, s.user)
           ELSE UNCHANGED <<momentVars, linkVars, routerVars, serverVars, restVars>>

\* AuthContext.js:81-82,108-109  login / register start
LoginStart ==
    /\ Dispatch(<<LOGIN_START>>)
    /\ UNCHANGED <<storedToken, storedRefresh, initAuth>>

\* AuthContext.js:84-93,111-120  login / register resolve
LoginSuccess ==
    /\ storedToken' = 1
    /\ storedRefresh' = 1
    /\ Dispatch(<<LOGIN_SUCCESS>>)
    /\ UNCHANGED initAuth

\* AuthContext.js:97-104,124-131  login / register reject
LoginFailure ==
    /\ Dispatch(<<LOGIN_FAILURE>>)
    /\ UNCHANGED <<storedToken, storedRefresh, initAuth>>

\* AuthContext.js:135-140  logout
Logout ==
    /\ storedToken' = 0
    /\ storedRefresh' = 0
    /\ Dispatch(<<LOGOUT>>)
    /\ UNCHANGED initAuth

\* AuthContext.js:142-144  updateUser
UpdateUser ==
    /\ Dispatch(<<UPDATE_USER>>)
    /\ UNCHANGED <<storedToken, storedRefresh, initAuth>>

\* AuthContext.js:146-148  clearError
ClearError ==
    /\ Dispatch(<<CLEAR_ERROR>>)
    /\ UNCHANGED <<storedToken, storedRefresh, initAuth>>

\* AuthContext.js:61-63,75  initAuth up to its await: with no token stored
\* it only dispatches CLEAR_ERROR
InitAuthStarts ==
    /\ initAuth = "start"
    /\ IF storedToken # 0
       THEN /\ initAuth' = "awaiting"
            /\ UNCHANGED <<token, loading, authError>>
            /\ UNCHANGED <<momentVars, linkVars, routerVars, serverVars, restVars>>
       ELSE /\ initAuth' = "done"
            /\ Dispatch(<<CLEAR_ERROR>>)
    /\ UNCHANGED <<storedToken, storedRefresh>>

\* AuthContext.js:65-69,75  getProfile resolves; the payload's token is the
\* one read at line 62
GetProfileResolves ==
    /\ initAuth = "awaiting"
    /\ initAuth' = "done"
    /\ Dispatch(<<LOGIN_SUCCESS, CLEAR_ERROR>>)
    /\ UNCHANGED <<storedToken, storedRefresh>>

\* AuthContext.js:70-75  getProfile rejects
GetProfileRejects ==
    /\ initAuth = "awaiting"
    /\ initAuth' = "done"
    /\ storedToken' = 0
    /\ Dispatch(<<LOGOUT, CLEAR_ERROR>>)
    /\ UNCHANGED storedRefresh

\* the open event of socket s
SocketOpens(s) ==
    /\ sockets[s].readyState = "CONNECTING"
    /\ SetLink(onopen([LinkState EXCEPT !.sockets[s].readyState = "OPEN",
                                        !.sockets[s].established = TRUE], s))
    /\ UNCHANGED <<isAuthenticated, user, lastClose, mounted>>
    /\ UNCHANGED <<momentVars, routerVars, serverVars, extVars>>

\* the close event of socket s: code 1000 needs an established connection
SocketCloses(s, code) ==
    /\ sockets[s].readyState \in {"CONNECTING", "OPEN", "CLOSING"}
    /\ code = NormalClosure => sockets[s].established
    /\ ShouldReconnect(code, sockets[s].env.attempts) => reconnectAttempts < MaxAttempts
    /\ SetLink(onclose(Forget(LinkState, s), sockets[s].env, code))
    /\ lastClose' = code
    /\ UNCHANGED <<isAuthenticated, user, mounted>>
    /\ UNCHANGED <<momentVars, routerVars, serverVars, extVars>>

\* WebSocketContext.js:82-85  the reconnect timeout fires
TimerFires ==
    /\ timer.pending
    /\ LET st == [LinkState EXCEPT !.timer = NoTimer]
       IN  /\ Connects(st, timer.env) => FreeSlots(sockets) # {}
           /\ SetLink(connectWebSocket(st, timer.env))
    /\ UNCHANGED <<isAuthenticated, user, lastClose, mounted>>
    /\ UNCHANGED <<momentVars, routerVars, serverVars, extVars>>

\* part_004:86-91  the Moment page mounts (App.js:45-51: only when logged
\* in): its effect calls the joinMoment of the render it mounts in
MountMoment ==
    /\ isAuthenticated /\ user # 0
    /\ ~mounted
    /\ nSend < MaxSend
    /\ mounted' = TRUE
    /\ SetLink([joinMoment(LinkState, socket) EXCEPT !.mountSocket = socket])
    /\ UNCHANGED <<isAuthenticated, user, lastClose>>
    /\ UNCHANGED <<momentVars, routerVars, serverVars, extVars>>

\* part_004:92-96  the Moment page unmounts (navigation)
UnmountMoment ==
    /\ mounted
    /\ nSend < MaxSend
    /\ mounted' = FALSE
    /\ SetLink(unmountMoment(LinkState))
    /\ PageStateLost
    /\ UNCHANGED <<isAuthenticated, user, lastClose, data, nEvents, invalidations>>
    /\ UNCHANGED <<momentVars, serverVars, extVars>>

\* WebSocketContext.js:9-25 after the provider has mounted logged out
LinkInit ==
    /\ isAuthenticated = FALSE
    /\ user = 0
    /\ socket = Null
    /\ isConnected = FALSE
    /\ reconnectAttempts = 0
    /\ timer = NoTimer
    /\ sockets = [s \in 1 .. MaxLive |-> ClosedSocket]
    /\ effectSocket = Null
    /\ lastClose = 0
    /\ mounted = FALSE
    /\ mountSocket = Null
    /\ nSend = 0
    /\ calls = <<>>

\* WebSocketContext.js:48-55, part_004:28
RouterInit ==
    /\ data = [type |-> "none"]
    /\ nEvents = 0
    /\ typingUsers = <<>>
    /\ invalidations = 0
    /\ lastTyping = [u \in Users |-> "none"]
    /\ typingAge = [u \in Users |-> 0]

SocketOpen == \E s \in DOMAIN sockets : SocketOpens(s)

SocketClose ==
    \E s \in DOMAIN sockets : \E code \in {NormalClosure, AbnormalClosure} :
        SocketCloses(s, code)

LinkNext ==
    \/ LoginSuccess
    \/ Logout
    \/ UpdateUser
    \/ SocketOpen
    \/ SocketClose
    \/ TimerFires
    \/ MountMoment
    \/ UnmountMoment

\* -------------------------------- WebSocketProvider and Moment page: inbound

\* part_004:128,130  prev.filter(u => u !== typingUser)
Without(prev, u) == SelectSeq(prev, LAMBDA x : x # u)

\* part_004:126-132  the updater handleUserTyping passes to setTypingUsers
TypingUpdate_NoFilter(prev, u, is_typing) ==
    IF is_typing THEN Append(prev, u) ELSE Without(prev, u)
TypingUpdate(prev, u, is_typing) ==
    IF is_typing THEN Append(Without(prev, u), u) ELSE Without(prev, u)

\* part_004:123-134  the page's listener for user-typing
handleUserTyping(detail) ==
    /\ typingUsers' = IF detail.user # LocalUser
                      THEN TypingUpdate(typingUsers, detail.user, detail.is_typing)
                      ELSE typingUsers
    /\ lastTyping' = [lastTyping EXCEPT ![detail.user] =
                          IF detail.is_typing THEN "start" ELSE "stop"]
    /\ typingAge' = [typingAge EXCEPT ![detail.user] = 0]

\* part_004:101-115  the page's listeners for media-added and media-removed;
\* by is the uploader / remover. Nothing dispatches these events: the
\* provider's cases for media_added and media_removed only raise a toast
\* (WebSocketContext.js:109-115).
handleMediaChanged(detail) ==
    invalidations' = IF detail.by # LocalUser THEN invalidations + 1 ELSE invalidations

\* WebSocketContext.js:165-167  window.dispatchEvent of user-typing: the
\* listener is there while the page is mounted (part_004:139,145)
DispatchUserTyping(detail) ==
    IF mounted
    THEN handleUserTyping(detail)
    ELSE UNCHANGED <<typingUsers, lastTyping, typingAge>>

\* WebSocketContext.js:100-150  for a parsed message
handleWebSocketMessage(msg) ==
    IF msg.type = "user_typing"
    THEN DispatchUserTyping(msg) /\ UNCHANGED invalidations
    ELSE \* media_added, media_removed: a toast; default: console.log
         UNCHANGED <<typingUsers, lastTyping, typingAge, invalidations>>

\* a message can arrive: some socket is OPEN
CanReceive ==
    /\ \E s \in DOMAIN sockets : sockets[s].readyState = "OPEN"
    /\ nEvents < MaxEvents

\* WebSocketContext.js:48-55  onmessage; a message that does not parse is
\* caught and logged
onmessage(msg) ==
    /\ nEvents' = nEvents + 1
    /\ data' = msg
    /\ IF msg.type = "unparseable"
       THEN UNCHANGED <<typingUsers, lastTyping, typingAge, invalidations>>
       ELSE handleWebSocketMessage(msg)
    /\ UNCHANGED <<momentVars, linkVars, serverVars, extVars>>

ReceiveUserTyping ==
    /\ CanReceive
    /\ \E u \in Users : \E t \in BOOLEAN :
          onmessage([type |-> "user_typing", user |-> u, is_typing |-> t])

\* by is the envelope's uploader / remover
ReceiveMedia ==
    /\ CanReceive
    /\ \E t \in {"media_added", "media_removed"} : \E u \in Users :
          onmessage([type |-> t, by |-> u])

\* types handleWebSocketMessage has no case for
ReceiveUnknownType ==
    /\ CanReceive
    /\ \E t \in {"add_moment", "presence"} : onmessage([type |-> t])

ReceiveUnparseable ==
    /\ CanReceive
    /\ onmessage([type |-> "unparseable"])

\* a second passes; nothing in the page or the provider is scheduled on it
\* for the identities shown as typing
Tick ==
    /\ \E u \in Range(typingUsers) : typingAge[u] < MaxAge
    /\ typingAge' = [u \in Users |->
                         IF u \in Range(typingUsers) /\ typingAge[u] < MaxAge
                         THEN typingAge[u] + 1 ELSE typingAge[u]]
    /\ UNCHANGED <<data, nEvents, typingUsers, invalidations, lastTyping>>
    /\ UNCHANGED <<momentVars, linkVars, serverVars, extVars>>

RouterNext ==
    \/ LoginSuccess
    \/ Logout
    \/ UpdateUser
    \/ SocketOpen
    \/ SocketClose
    \/ TimerFires
    \/ MountMoment
    \/ UnmountMoment
    \/ ReceiveUserTyping
    \/ ReceiveMedia
    \/ ReceiveUnknownType
    \/ ReceiveUnparseable
    \/ Tick

\* ------------------------------------------- Channel Registry (server)

\* the links of three clients
Clients == {"c1", "c2", "c3"}

\* content mutations, and ephemeral signalling (typing, WebRTC)
ContentTypes == {"add_moment", "delete_moment"}
SignalTypes == {"typing", "webrtc_offer"}

\* the exclude policy of a type: all members, or all members but the sender
Policy_AllMembers(type) == "all"
Policy(type) == IF type \in ContentTypes THEN "all" ELSE "others"

Recipients(ms, sender, type) ==
    IF Policy(type) = "all" THEN ms ELSE ms \ {sender}

ServerInit ==
    /\ members = {}
    /\ delivered = [c \in Clients |-> <<>>]
    /\ lastBroadcast = [type |-> "none", from |-> "none", n |-> 0]

\* join(link, channelID): idempotent
join(c) ==
    /\ members' = members \cup {c}
    /\ UNCHANGED <<delivered, lastBroadcast>>
    /\ UNCHANGED <<momentVars, linkVars, routerVars, extVars>>

\* leave(link, channelID): idempotent
leave(c) ==
    /\ members' = members \ {c}
    /\ UNCHANGED <<delivered, lastBroadcast>>
    /\ UNCHANGED <<momentVars, linkVars, routerVars, extVars>>

\* broadcast(channelID, envelope, excludePolicy) of an envelope that member
\* c sent
broadcast(c, type) ==
    LET e == [type |-> type, from |-> c, n |-> lastBroadcast.n + 1]
    IN  /\ c \in members
        /\ lastBroadcast.n < MaxBroadcast
        /\ lastBroadcast' = e
        /\ delivered' = [x \in Clients |->
                             IF x \in Recipients(members, c, type)
                             THEN Append(delivered[x], e)
                             ELSE delivered[x]]
        /\ UNCHANGED members
        /\ UNCHANGED <<momentVars, linkVars, routerVars, extVars>>

Join == \E c \in Clients : c \notin members /\ join(c)

Leave == \E c \in Clients : c \in members /\ leave(c)

Broadcast == \E c \in Clients : \E t \in ContentTypes \cup SignalTypes : broadcast(c, t)

FanoutNext ==
    \/ Join
    \/ Leave
    \/ Broadcast

\* ------------------------------------- the page's location and endpoints

\* Strings are sequences of characters, so that an endpoint can be taken
\* apart again.
HTTP == <<"h", "t", "t", "p", ":">>
HTTPS == <<"h", "t", "t", "p", "s", ":">>
FILE == <<"f", "i", "l", "e", ":">>

\* window.location of the pages the clients are loaded from: the protocol,
\* the host (with the port when there is one) and the path
Locations ==
    [protocol : {HTTP, HTTPS, FILE},
     host : {<<"m", ".", "n", "e", "t">>, <<"l", "h", ":", "8", "0">>},
     pathname : {<<"/">>, <<"/", "m", "/", "x", "/">>}]

MomentIds == {<<"7">>, <<"a", "b">>}

\* moment.js:379-383
wsStart_Plain(protocol) == <<"w", "s", ":", "/", "/">>
wsStart(protocol) ==
    IF protocol = HTTPS THEN <<"w", "s", "s", ":", "/", "/">>
    ELSE <<"w", "s", ":", "/", "/">>

\* moment.js:387
Endpoint(loc) == wsStart(loc.protocol) \o loc.host \o loc.pathname

\* WebSocketContext.js:30, api.js:201
WsProtocol(protocol) ==
    IF protocol = HTTPS THEN <<"w", "s", "s", ":">> ELSE <<"w", "s", ":">>

\* WebSocketContext.js:31
WsUrl(loc) == WsProtocol(loc.protocol) \o <<"/", "/">> \o loc.host \o <<"/", "w", "s", "/">>

\* api.js:202
ConnectUrl(loc, momentId) ==
    WsProtocol(loc.protocol) \o <<"/", "/">> \o loc.host
        \o <<"/", "w", "s", "/", "m", "o", "m", "e", "n", "t", "s", "/">>
        \o momentId \o <<"/">>

\* a url that has not been built
NoUrl == <<>>

\* the page the other specifications are loaded from
LocInit ==
    /\ location = [protocol |-> HTTPS, host |-> <<"m", ".", "n", "e", "t">>,
                   pathname |-> <<"/">>]
    /\ endpoint = NoUrl
    /\ wsUrl = NoUrl
    /\ connectUrl = NoUrl

\* any page
AnyLocInit ==
    /\ location \in Locations
    /\ endpoint = NoUrl
    /\ wsUrl = NoUrl
    /\ connectUrl = NoUrl

\* moment.js:379-388  the page's script
BuildEndpoint ==
    /\ endpoint = NoUrl
    /\ endpoint' = Endpoint(location)
    /\ UNCHANGED <<location, wsUrl, connectUrl>>
    /\ UNCHANGED <<momentVars, linkVars, routerVars, serverVars, authVars, apiVars,
                   errorVars, echoed>>

\* WebSocketContext.js:30-31  in connectWebSocket
BuildWsUrl ==
    /\ wsUrl = NoUrl
    /\ wsUrl' = WsUrl(location)
    /\ UNCHANGED <<location, endpoint, connectUrl>>
    /\ UNCHANGED <<momentVars, linkVars, routerVars, serverVars, authVars, apiVars,
                   errorVars, echoed>>

\* api.js:200-204  websocketAPI.connect(momentId)
ApiConnect ==
    /\ connectUrl = NoUrl
    /\ \E momentId \in MomentIds : connectUrl' = ConnectUrl(location, momentId)
    /\ UNCHANGED <<location, endpoint, wsUrl>>
    /\ UNCHANGED <<momentVars, linkVars, routerVars, serverVars, authVars, apiVars,
                   errorVars, echoed>>

EndpointNext ==
    \/ BuildEndpoint
    \/ BuildWsUrl
    \/ ApiConnect

\* ------------------------------------------------------- error events

\* WebSocketContext.js:66-69  onerror of socket s: console.error and a toast
onerror_Closes(st, s) ==
    [st EXCEPT !.sockets = CloseCall(@, s), !.isConnected = FALSE]
onerror(st, s) == st

\* the error event of a socket
SocketError ==
    /\ linkErrors < MaxErrors
    /\ linkErrors' = linkErrors + 1
    /\ \E s \in DOMAIN sockets :
          /\ sockets[s].readyState \in {"CONNECTING", "OPEN"}
          /\ SetLink(onerror(LinkState, s))
    /\ UNCHANGED <<isAuthenticated, user, lastClose, mounted>>
    /\ UNCHANGED <<momentVars, routerVars, serverVars, authVars, locVars, apiVars,
                   pageErrors, echoed>>

\* moment.js:447-449  socket.onerror: console.log
PageSocketError ==
    /\ pageSocket \in {"CONNECTING", "OPEN"}
    /\ pageErrors < MaxErrors
    /\ pageErrors' = pageErrors + 1
    /\ UNCHANGED <<momentVars, linkVars, routerVars, serverVars, authVars, locVars,
                   apiVars, linkErrors, echoed>>

\* ---------------------------------------------- requests through api

\* api.js:64-195  a request just made through the axios instance: retry is
\* config._retry, sends how often the request was sent, refreshes how many
\* refresh calls were made for it, status the status of its last response
NewRequest ==
    [pc |-> "sent", retry |-> FALSE, sends |-> 1, refreshes |-> 0, status |-> 0]

\* the statuses a response has: success, unauthorized, any other error
Statuses == {200, 401, 500}

\* api.js:33  the test of the response interceptor's error handler
ShouldRefresh_Always(status, retry) == status = 401
ShouldRefresh(status, retry) == status = 401 /\ ~retry

\* api.js:29-38,58  the response interceptor up to its await: a response
\* outside 2xx goes to the error handler, which marks the request, and
\* posts a refresh when a refreshToken is stored
onResponse(req, status) ==
    LET got == [req EXCEPT !.status = status]
    IN  IF status = 200 THEN [got EXCEPT !.pc = "resolved"]
        ELSE IF ShouldRefresh(status, req.retry)
        THEN IF storedRefresh # 0
             THEN [got EXCEPT !.retry = TRUE, !.pc = "refreshing", !.refreshes = @ + 1]
             ELSE [got EXCEPT !.retry = TRUE, !.pc = "rejected"]
        ELSE [got EXCEPT !.pc = "rejected"]

\* a call of one of the api functions
Request ==
    /\ Len(requests) < MaxRequests
    /\ requests' = Append(requests, NewRequest)
    /\ UNCHANGED <<momentVars, linkVars, routerVars, serverVars, authVars, locVars,
                   errorVars, echoed>>

\* the response to request r arrives
Responds(r, status) ==
    /\ requests[r].pc = "sent"
    /\ requests' = [requests EXCEPT ![r] = onResponse(@, status)]
    /\ UNCHANGED <<momentVars, linkVars, routerVars, serverVars, authVars, locVars,
                   errorVars, echoed>>

Response == \E r \in DOMAIN requests : \E status \in Statuses : Responds(r, status)

\* api.js:39-48  the refresh call made for a request resolves: the new
\* token is stored and the request is sent again through api
RefreshResolves ==
    \E r \in DOMAIN requests :
        /\ requests[r].pc = "refreshing"
        /\ storedToken' = 1
        /\ requests' = [requests EXCEPT ![r].pc = "sent", ![r].sends = @ + 1]
        /\ UNCHANGED <<token, loading, authError, storedRefresh, initAuth>>
        /\ UNCHANGED <<momentVars, linkVars, routerVars, serverVars, locVars,
                       errorVars, echoed>>

\* api.js:50-58  the refresh call rejects: both tokens are removed, the
\* page is sent to /login and the request is rejected
RefreshRejects ==
    \E r \in DOMAIN requests :
        /\ requests[r].pc = "refreshing"
        /\ storedToken' = 0
        /\ storedRefresh' = 0
        /\ requests' = [requests EXCEPT ![r].pc = "rejected"]
        /\ UNCHANGED <<token, loading, authError, initAuth>>
        /\ UNCHANGED <<momentVars, linkVars, routerVars, serverVars, locVars,
                       errorVars, echoed>>

ApiNext ==
    \/ Request
    \/ Response
    \/ RefreshResolves
    \/ RefreshRejects

\* AuthContext.js:49-55 with nothing stored, after initAuth has run
AuthIdleInit ==
    /\ token = 0
    /\ loading = TRUE
    /\ authError = 0
    /\ storedToken = 0
    /\ storedRefresh = 0
    /\ initAuth = "done"

\* AuthContext.js:49-55  initialState as AuthProvider mounts, with or
\* without tokens stored
AuthMountInit ==
    /\ storedToken \in {0, 1}
    /\ storedRefresh \in {0, 1}
    /\ token = storedToken
    /\ loading = TRUE
    /\ authError = 0
    /\ initAuth = "start"

ErrorInit ==
    /\ pageErrors = 0
    /\ linkErrors = 0
    /\ echoed = 0

\* api.js:6  no request made yet
ApiInit == requests = <<>>

Init ==
    /\ MomentInit /\ LinkInit /\ RouterInit /\ ServerInit
    /\ AuthIdleInit /\ LocInit /\ ApiInit /\ ErrorInit

\* the endpoint builders, on any page
EndpointInit ==
    /\ MomentInit /\ LinkInit /\ RouterInit /\ ServerInit
    /\ AuthIdleInit /\ AnyLocInit /\ ApiInit /\ ErrorInit

EndpointSpec == EndpointInit /\ [][EndpointNext]_vars

MomentSpec == Init /\ [][MomentNext]_vars

\* the moment page with the channel that broadcasts its envelopes back
EchoNext ==
    \/ ShutterClick
    \/ UploadSucceeds
    \/ UploadFails
    \/ ReceiveAdd
    \/ ReceiveDelete
    \/ PageSocketOpens
    \/ PageSocketCloses
    \/ EchoArrives

\* every storage call calls back, every envelope sent is broadcast back
\* while the socket is open, and a connecting socket opens
EchoSpec ==
    /\ Init
    /\ [][EchoNext]_vars
    /\ WF_vars(UploadSucceeds \/ UploadFails)
    /\ WF_vars(EchoArrives)
    /\ WF_vars(PageSocketOpens)

LinkSpec == Init /\ [][LinkNext]_vars

RouterSpec == Init /\ [][RouterNext]_vars

\* AuthProvider from its mount, with the WebSocketProvider below it
AuthInit ==
    /\ MomentInit /\ LinkInit /\ RouterInit /\ ServerInit
    /\ AuthMountInit /\ LocInit /\ ApiInit /\ ErrorInit

AuthNext ==
    \/ InitAuthStarts
    \/ GetProfileResolves
    \/ GetProfileRejects
    \/ LoginStart
    \/ LoginSuccess
    \/ LoginFailure
    \/ Logout
    \/ UpdateUser
    \/ ClearError
    \/ SocketOpen
    \/ SocketClose
    \/ TimerFires

AuthSpec == AuthInit /\ [][AuthNext]_vars

\* initAuth runs on, and getProfile settles
AuthLiveSpec ==
    /\ AuthInit
    /\ [][AuthNext]_vars
    /\ WF_vars(InitAuthStarts)
    /\ WF_vars(GetProfileResolves \/ GetProfileRejects)

\* the axios instance, with or without tokens stored
ApiSpecInit ==
    /\ MomentInit /\ LinkInit /\ RouterInit /\ ServerInit
    /\ AuthMountInit /\ LocInit /\ ApiInit /\ ErrorInit

ApiSpec == ApiSpecInit /\ [][ApiNext]_vars

\* WebSocketProvider on its own (no Moment page), with room for a second
\* WebSocket object
ProviderInit ==
    /\ MomentInit /\ RouterInit /\ ServerInit
    /\ AuthIdleInit /\ LocInit /\ ApiInit /\ ErrorInit
    /\ isAuthenticated = FALSE
    /\ user = 0
    /\ socket = Null
    /\ isConnected = FALSE
    /\ reconnectAttempts = 0
    /\ timer = NoTimer
    /\ sockets = [s \in 1 .. MaxSockets |-> ClosedSocket]
    /\ effectSocket = Null
    /\ lastClose = 0
    /\ mounted = FALSE
    /\ mountSocket = Null
    /\ nSend = 0
    /\ calls = <<>>

ProviderNext ==
    \/ LoginSuccess
    \/ Logout
    \/ UpdateUser
    \/ SocketOpen
    \/ SocketClose
    \/ TimerFires

ProviderSpec == ProviderInit /\ [][ProviderNext]_vars

\* A browser tab shows one of the two clients: the server-rendered moment
\* page (assets/js/moment.js) or the React application (App.js). The other
\* one's script is not loaded and its state stays as initialised.
FanoutSpec == Init /\ [][FanoutNext]_vars

LegacyTab == LinkInit /\ RouterInit
ReactTab == MomentInit

ClientNext ==
    \/ LegacyTab /\ ShutterClick
    \/ LegacyTab /\ UploadSucceeds
    \/ LegacyTab /\ UploadFails
    \/ LegacyTab /\ ReceiveAdd
    \/ LegacyTab /\ ReceiveDelete
    \/ LegacyTab /\ ReceiveOther
    \/ LegacyTab /\ OnUnparseable
    \/ LegacyTab /\ PageSocketOpens
    \/ LegacyTab /\ PageSocketCloses
    \/ ReactTab /\ LoginSuccess
    \/ ReactTab /\ Logout
    \/ ReactTab /\ UpdateUser
    \/ ReactTab /\ SocketOpen
    \/ ReactTab /\ SocketClose
    \/ ReactTab /\ TimerFires
    \/ ReactTab /\ MountMoment
    \/ ReactTab /\ UnmountMoment
    \/ ReactTab /\ ReceiveUserTyping
    \/ ReactTab /\ ReceiveMedia
    \/ ReactTab /\ ReceiveUnknownType
    \/ ReactTab /\ ReceiveUnparseable
    \/ ReactTab /\ Tick

ClientSpec == Init /\ [][ClientNext]_vars

\* either client, with the error events of its socket
ErrorNext ==
    \/ LegacyTab /\ ShutterClick
    \/ LegacyTab /\ UploadSucceeds
    \/ LegacyTab /\ ReceiveAdd
    \/ LegacyTab /\ PageSocketOpens
    \/ LegacyTab /\ PageSocketCloses
    \/ LegacyTab /\ PageSocketError
    \/ ReactTab /\ LoginSuccess
    \/ ReactTab /\ Logout
    \/ ReactTab /\ UpdateUser
    \/ ReactTab /\ SocketOpen
    \/ ReactTab /\ SocketClose
    \/ ReactTab /\ TimerFires
    \/ ReactTab /\ MountMoment
    \/ ReactTab /\ UnmountMoment
    \/ ReactTab /\ SocketError

ErrorSpec == Init /\ [][ErrorNext]_vars

\* ------------------------------------------- WebSocketProvider: the claims

\* the step handles the close event of socket s
CloseEvent(s) == sockets[s].readyState # "CLOSED" /\ sockets'[s].readyState = "CLOSED"

\* the step ran scheduleReconnect
Scheduled == timer'.pending /\ reconnectAttempts' = reconnectAttempts + 1

\* the link is closed, the user is authenticated and no reconnect is pending
GaveUp ==
    /\ isAuthenticated /\ user # 0
    /\ \A s \in DOMAIN sockets : sockets[s].readyState \notin {"CONNECTING", "OPEN"}
    /\ ~timer.pending

\* C9: a close event schedules a reconnect exactly when the close was not
\* one disconnectWebSocket asked for (a socket disconnectWebSocket has called
\* close(1000) on is CLOSING until its close event).
C9_CloseSchedulesUnlessLogout ==
    [][\A s \in DOMAIN sockets :
          CloseEvent(s) => (Scheduled <=> sockets[s].readyState # "CLOSING")
      ]_vars

\* What onclose does instead: it schedules a reconnect exactly when the code
\* of the close event is not 1000 and the reconnectAttempts value held by the
\* closing socket's handlers is below maxReconnectAttempts.
OncloseSchedulesByCodeAndCount ==
    [][\A s \in DOMAIN sockets :
          CloseEvent(s) =>
              (Scheduled <=> (/\ lastClose' # NormalClosure
                              /\ sockets[s].env.attempts < maxReconnectAttempts))
      ]_vars

\* C11: the delay scheduleReconnect uses before the k-th consecutive reconnect
\* attempt since the last successful open is min(1000 * 2^k, 30000) ms; k is
\* the number of reconnects scheduled since the last open event, which is
\* the value of the reconnectAttempts state before the step.
C11_CappedExponentialBackoff ==
    [][Scheduled => timer'.delay = Min(1000 * Pow2(reconnectAttempts), 30000)]_vars

\* the part of C11 that holds: no delay exceeds the ceiling
DelayNeverExceedsCeiling == timer.delay <= MaxDelay

SendCall == nSend' = nSend + 1

\* every envelope a socket was handed by sendMessage comes from a call that
\* saw that socket OPEN
SentOnlyIfOpen ==
    \A s \in DOMAIN sockets :
        \A i \in DOMAIN sockets[s].sent :
            LET m == sockets[s].sent[i]
            IN  m.n # 0 => (m.n \in DOMAIN calls /\ calls[m.n] = "OPEN")

\* C12: a sendMessage call that sees no socket, or one that is not OPEN, hands
\* nothing to any socket, and its envelope is not handed to a socket at any
\* later time either, whatever the link does afterwards.
C12_NotOpenNotSent ==
    [][/\ (SendCall /\ calls'[nSend'] # "OPEN") =>
              \A s \in DOMAIN sockets : sockets'[s].sent = sockets[s].sent
       /\ SentOnlyIfOpen'
      ]_vars

\* the first call found the socket still connecting; the link then failed,
\* reconnected and opened, and the new socket has been handed the auth
\* envelope only
C12_Witness ==
    /\ calls # <<>> /\ calls[1] = "CONNECTING"
    /\ lastClose = AbnormalClosure
    /\ \E s \in DOMAIN sockets :
          /\ sockets[s].readyState = "OPEN"
          /\ sockets[s].sent = <<Envelope("auth", 0)>>

\* socket s has been handed a join_moment and no leave_moment after it
Joined(s) ==
    \E i \in DOMAIN sockets[s].sent :
        /\ sockets[s].sent[i].type = "join_moment"
        /\ \A j \in DOMAIN sockets[s].sent :
              j > i => sockets[s].sent[j].type # "leave_moment"

\* C14: whenever the Moment page is mounted and a socket is open, a
\* join_moment has been sent on that socket.
C14_JoinedOnEveryOpenSocket ==
    \A s \in DOMAIN sockets :
        (mounted /\ sockets[s].readyState = "OPEN") => Joined(s)

\* the sockets that are CONNECTING or OPEN
Live == {s \in DOMAIN sockets : sockets[s].readyState \in {"CONNECTING", "OPEN"}}

\* C26: at most one WebSocket of the provider is CONNECTING or OPEN, and
\* isConnected is true exactly when that socket is OPEN.
C26_OneLiveSocket ==
    /\ Cardinality(Live) <= 1
    /\ isConnected <=> \E s \in Live : sockets[s].readyState = "OPEN"

\* the half of C26 about the number of sockets
AtMostOneLive == Cardinality(Live) <= 1

\* the half of C26 about isConnected
ConnectedIffOpen == isConnected <=> \E s \in Live : sockets[s].readyState = "OPEN"

\* the step creates a WebSocket
Created == \E s \in DOMAIN sockets :
               sockets[s].readyState = "CLOSED" /\ sockets'[s].readyState = "CONNECTING"

\* C27: while the user is not authenticated no reconnect is pending, no
\* socket is CONNECTING or OPEN, and no step creates a WebSocket unless it
\* is the step that authenticates the user.
C27_LogoutIsTerminal ==
    [][/\ ~isAuthenticated' => (~timer'.pending /\ Live' = {})
       /\ Created => isAuthenticated'
      ]_vars

\* the part of C27 that holds: the step that logs the user out leaves no
\* reconnect pending and none of the sockets it knows CONNECTING or OPEN
LogoutStepDisconnects ==
    [][(isAuthenticated /\ ~isAuthenticated') =>
          (~timer'.pending /\ socket' = Null /\ ~isConnected')
      ]_vars

\* ------------------------------------------------ AuthProvider: the claims

\* C28: isAuthenticated is true exactly when user is not null, and
\* isAuthenticated true implies that token is not null.
C28_AuthStateConsistent ==
    /\ isAuthenticated <=> user # 0
    /\ isAuthenticated => token # 0

\* the part of C28 that holds: an authenticated state has a user and a token
AuthenticatedHasUserAndToken == isAuthenticated => (user # 0 /\ token # 0)

\* C29: after AuthProvider mounts, initAuth eventually has finished and has
\* left the state with loading false.
C29_InitAuthEndsLoading == <>(initAuth = "done" /\ loading = FALSE)

\* the part of C29 that holds: initAuth finishes
InitAuthTerminates == <>(initAuth = "done")

\* ------------------------------------------- token refresh: the claims

\* C30: for every request at most one refresh call is made and the request
\* is sent at most twice; a 401 response to the second sending rejects the
\* request without a refresh; and the step in which a refresh call fails
\* leaves neither token nor refreshToken stored and rejects the request.
C30_RefreshBounded ==
    [][\A r \in DOMAIN requests :
          /\ requests'[r].refreshes <= 1
          /\ requests'[r].sends <= 2
          /\ (/\ requests[r].pc = "sent" /\ requests[r].sends = 2
              /\ requests'[r].pc # "sent" /\ requests'[r].status = 401) =>
                 /\ requests'[r].pc = "rejected"
                 /\ requests'[r].refreshes = requests[r].refreshes
          /\ (requests[r].pc = "refreshing" /\ requests'[r].pc # "refreshing") =>
                 \/ requests'[r].pc = "sent" /\ requests'[r].sends = requests[r].sends + 1
                 \/ requests'[r].pc = "rejected" /\ storedToken' = 0 /\ storedRefresh' = 0
      ]_vars

\* one request was refreshed for, sent again and rejected on the second
\* 401; the refresh call for another failed and the storage is empty
C30_Witness ==
    /\ Len(requests) = 2
    /\ requests[1] = [pc |-> "rejected", retry |-> TRUE, sends |-> 2, refreshes |-> 1,
                      status |-> 401]
    /\ requests[2] = [pc |-> "rejected", retry |-> TRUE, sends |-> 1, refreshes |-> 1,
                      status |-> 401]
    /\ storedToken = 0
    /\ storedRefresh = 0

\* ------------------------------------ Moment page, inbound: the claims

\* the step is the provider's onmessage handling a message of one of the types
EventStep(types) == nEvents' = nEvents + 1 /\ data'.type \in types

\* C15: while the Moment page is mounted, every media_added or media_removed
\* envelope whose uploader / remover is not the local user makes the page
\* invalidate the moment query.
C15_RemoteMediaChangeRefreshes ==
    [][(EventStep({"media_added", "media_removed"}) /\ mounted /\ data'.by # LocalUser)
          => invalidations' = invalidations + 1
      ]_vars

\* C16: an identity shown as typing has had a typing-start dispatched within
\* the last TypingWindow seconds.
C16_TypingExpires ==
    \A u \in Range(typingUsers) : typingAge[u] <= TypingWindow

\* C17: typingUsers contains an identity exactly when it is not the local
\* user and the last user-typing event dispatched to the page for it had
\* is_typing true, and contains no identity twice.
C17_TypingSetTracksLastEvent ==
    /\ \A u \in Users :
          (u \in Range(typingUsers)) <=> (u # LocalUser /\ lastTyping[u] = "start")
    /\ Cardinality(Range(typingUsers)) = Len(typingUsers)

\* a remote identity is shown as typing, and a typing-start of the local
\* user's own was dispatched as well
C17_Witness ==
    /\ mounted
    /\ typingUsers = <<"u1">>
    /\ lastTyping["u1"] = "start"
    /\ lastTyping["me"] = "start"

\* ------------------------------------- Channel Registry: the claims

\* C20: an add_moment or delete_moment sent by a member is delivered to every
\* member of the channel, the sender included; a typing or WebRTC signalling
\* envelope is delivered to every member but the sender; nothing is
\* delivered to anyone else.
C20_FanOutPolicy ==
    [][lastBroadcast'.n = lastBroadcast.n + 1 =>
          LET e == lastBroadcast'
          IN  \A c \in Clients :
                  delivered'[c] =
                      IF /\ c \in members
                         /\ \/ e.type \in {"add_moment", "delete_moment"}
                            \/ c # e.from
                      THEN Append(delivered[c], e)
                      ELSE delivered[c]
      ]_vars

\* with members c1, c2, c3: c1 sent an add_moment and then a typing envelope
C20_Witness ==
    /\ members = {"c1", "c2", "c3"}
    /\ delivered["c1"] = <<[type |-> "add_moment", from |-> "c1", n |-> 1]>>
    /\ delivered["c2"] = <<[type |-> "add_moment", from |-> "c1", n |-> 1],
                           [type |-> "typing", from |-> "c1", n |-> 2]>>
    /\ delivered["c3"] = delivered["c2"]

\* ------------------------------------------------- both clients: the claims

\* the moment page's socket.onmessage handles a message of a type in types
PageStep(types) == nRecv' = nRecv + 1 /\ json'.type \in types

InitEnvelope == [type |-> "init", value |-> "username", upload |-> 0]

\* how many envelopes of a type a sequence holds
CountType(q, type) == Cardinality({i \in DOMAIN q : q[i].type = type})

\* C13: each open event makes the client send exactly one identity envelope
\* on the socket that opened -- init on the moment page, auth in
\* WebSocketProvider, there as the first thing the socket is handed -- and no
\* open or close event adds, duplicates or removes a rendered item, a pending
\* placeholder or an identity shown as typing.
C13_OneIdentityEnvelopePerOpen ==
    [][/\ (pageSocket # "OPEN" /\ pageSocket' = "OPEN") => sent' = Append(sent, InitEnvelope)
       /\ pageSocket' # pageSocket =>
              UNCHANGED <<moments, tempQueue, tempID, hashedName, uploads>>
       /\ pageSocket' = pageSocket => CountType(sent', "init") = CountType(sent, "init")
       /\ \A s \in DOMAIN sockets :
              /\ (sockets[s].readyState # "OPEN" /\ sockets'[s].readyState = "OPEN") =>
                     sockets'[s].sent = <<Envelope("auth", 0)>>
              /\ sockets'[s].readyState = "CONNECTING" => sockets'[s].sent = <<>>
              /\ sockets'[s].readyState \in {"OPEN", "CLOSING"} =>
                     CountType(sockets'[s].sent, "auth") = (IF sockets'[s].established THEN 1 ELSE 0)
              /\ sockets'[s].readyState # sockets[s].readyState =>
                     UNCHANGED <<typingUsers, invalidations>> \/ ~mounted'
      ]_vars

\* the moment page's socket dropped and opened again while an item was
\* rendered and a placeholder pending: two init envelopes, one per open
C13_Witness ==
    /\ pageSocket = "OPEN"
    /\ nOpen = 2
    /\ CountType(sent, "init") = 2
    /\ tempQueue = <<1>>
    /\ consumed[0] = 1

\* C18: an envelope of a type the client has no handler for changes nothing
\* -- rendered items, the pending queue, the typing set, the connection
\* state -- and raises no error; the socket it came on stays open with its
\* handler, so that later envelopes are handled.
C18_UnknownTypeIgnored ==
    [][/\ (nRecv' = nRecv + 1
           /\ json'.type \notin {"add_moment", "delete_moment", "unparseable"}) =>
              UNCHANGED <<tempQueue, tempID, moments, hashedName, uploads, sent,
                          pageSocket, uncaught>>
       /\ EventStep({"add_moment", "presence"}) =>
              UNCHANGED <<typingUsers, invalidations, linkVars>>
      ]_vars

\* an envelope of an unknown type arrived on the moment page while one item
\* was rendered and one placeholder pending
C18_Witness ==
    /\ json.type = "media_added"
    /\ tempQueue = <<1>>
    /\ consumed[0] = 1
    /\ json.value = moments[2].id

\* C19: a message that does not parse is dropped: the handler does not fail
\* and nothing of the client's state changes.
C19_UnparseableDropped ==
    [][/\ PageStep({"unparseable"}) =>
              /\ uncaught' = uncaught
              /\ UNCHANGED <<tempQueue, tempID, moments, hashedName, uploads, sent, pageSocket>>
       /\ EventStep({"unparseable"}) =>
              UNCHANGED <<typingUsers, invalidations, linkVars>>
      ]_vars

\* the part of C19 that holds: no state changes, on either client
UnparseableChangesNothing ==
    [][/\ PageStep({"unparseable"}) =>
              UNCHANGED <<tempQueue, tempID, moments, hashedName, uploads, sent, pageSocket>>
       /\ EventStep({"unparseable"}) =>
              UNCHANGED <<typingUsers, invalidations, linkVars>>
      ]_vars

\* ---------------------------------------------- error events: the claims

\* C22: a step that handles a socket's error event changes nothing but the
\* log: in WebSocketProvider the socket, every socket's readyState,
\* isConnected, reconnectAttempts and the reconnect timer stay as they are,
\* on the moment page the socket and everything rendered or queued; and a
\* reconnect is scheduled only by a step that handles a close event.
C22_ErrorChangesNothing ==
    [][/\ linkErrors' # linkErrors => UNCHANGED linkVars
       /\ pageErrors' # pageErrors => UNCHANGED momentVars
       /\ Scheduled => \E s \in DOMAIN sockets : CloseEvent(s)
      ]_vars

\* an error event on the open socket of a link that had failed and
\* reconnected before: the socket is still open and no reconnect is pending
C22_Witness ==
    /\ linkErrors = 1
    /\ lastClose = AbnormalClosure
    /\ isConnected
    /\ ~timer.pending
    /\ \E s \in DOMAIN sockets : sockets[s].readyState = "OPEN"

\* ------------------------------------------------- endpoints: the claims

\* the place of the first c in url at or after from; Len(url) + 1 if none
RECURSIVE Find(_, _, _)
Find(url, c, from) ==
    IF from > Len(url) THEN Len(url) + 1
    ELSE IF url[from] = c THEN from
    ELSE Find(url, c, from + 1)

\* the scheme of a url: what stands before its first colon
SchemeOf(url) == SubSeq(url, 1, Find(url, ":", 1) - 1)

\* the authority of a url: what stands between the // after the scheme and
\* the next slash
HostOf(url) ==
    LET a == Find(url, ":", 1) + 3
    IN  SubSeq(url, a, Find(url, "/", a) - 1)

HasAuthority(url) ==
    LET c == Find(url, ":", 1)
    IN  c + 2 <= Len(url) /\ url[c + 1] = "/" /\ url[c + 2] = "/"

Built == {u \in {endpoint, wsUrl, connectUrl} : u # NoUrl}

\* C21: every endpoint a client has built has the scheme wss when the page's
\* protocol is https: and ws otherwise, and its host is the page's host.
C21_SchemeFollowsPage ==
    \A u \in Built :
        /\ SchemeOf(u) = (IF location.protocol = <<"h", "t", "t", "p", "s", ":">>
                          THEN <<"w", "s", "s">> ELSE <<"w", "s">>)
        /\ HasAuthority(u)
        /\ HostOf(u) = location.host

\* an https page on a host with a port, all three endpoints built
C21_Witness ==
    /\ location.protocol = HTTPS
    /\ location.host = <<"l", "h", ":", "8", "0">>
    /\ endpoint # NoUrl /\ wsUrl # NoUrl /\ connectUrl # NoUrl
    /\ SchemeOf(endpoint) = <<"w", "s", "s">>

\* ------------------------------------------------ moment page: the claims

\* the step is socket.onmessage handling an add_moment / a delete_moment
AddStep == nRecv' = nRecv + 1 /\ json'.type = "add_moment"
DeleteStep == nRecv' = nRecv + 1 /\ json'.type = "delete_moment"

\* the rendered element that was created as tempmoment_k bears id
Bears(k, id) == \E j \in DOMAIN moments : moments[j].temp = k /\ moments[j].id = id

\* N >= 1 local adds were made before anything was received, and exactly N
\* add_moment envelopes (and nothing else) were received since
InOrderScenario ==
    /\ tempID >= 1
    /\ \A i \in DOMAIN created : created[i] = 0
    /\ nRecv = Len(addLog)
    /\ Len(addLog) = tempID

\* C23: no two rendered items bear the same identifier.
C23_RenderedIdsUnique ==
    \A i, j \in DOMAIN moments : moments[i].id = moments[j].id => i = j

\* the numbers k for which an 'Uploading...' placeholder tempmoment_k is
\* rendered
Placeholders ==
    {k \in 0 .. MaxTemp :
        \E j \in DOMAIN moments :
            moments[j].id = "tempmoment_" \o ToString(k) /\ moments[j].img = "Uploading"}

\* C24: tempQueue is a strictly increasing sequence of integers smaller than
\* tempID, its entries are exactly the numbers k for which a placeholder
\* tempmoment_k is rendered, and each such placeholder is rendered once.
C24_QueueMatchesPlaceholders ==
    /\ \A i \in DOMAIN tempQueue : tempQueue[i] \in 0 .. (tempID - 1)
    /\ \A i, j \in DOMAIN tempQueue : i < j => tempQueue[i] < tempQueue[j]
    /\ Range(tempQueue) = Placeholders
    /\ \A i, j \in DOMAIN moments :
          (moments[i].img = "Uploading" /\ moments[i].id = moments[j].id) => i = j

\* two local adds; the first placeholder was reconciled and then deleted,
\* the second is still pending
C24_Witness ==
    /\ tempID = 2
    /\ tempQueue = <<1>>
    /\ moments = <<Placeholder(1)>>
    /\ json.type = "delete_moment"

\* a placeholder is pending: queued or rendered
Pending(k) ==
    \/ k \in Range(tempQueue)
    \/ \E j \in DOMAIN moments : moments[j].temp = k /\ moments[j].img = "Uploading"

\* nothing has failed: no upload has, and the socket has not closed
NothingFailed ==
    /\ \A u \in DOMAIN uploads : uploads[u].status # "failed"
    /\ nOpen >= 1 => pageSocket = "OPEN"

\* C25: if no upload fails and the socket, once open, stays open, every
\* pending placeholder is eventually neither queued nor rendered, whatever
\* add_moment envelopes of other clients arrive in between.
C25_NoPlaceholderForever ==
    []NothingFailed => \A k \in 0 .. (MaxTemp - 1) : (Pending(k) ~> ~Pending(k))

\* two local adds with an envelope of another client in between, both own
\* envelopes broadcast back: nothing is pending and three items are rendered
C25_Witness ==
    /\ NothingFailed
    /\ tempID = 2
    /\ echoed = 2
    /\ nRecv = 3
    /\ tempQueue = <<>>
    /\ Len(moments) = 3
    /\ \A j \in DOMAIN moments : moments[j].img = "Loading"

\* C1: after N local adds followed by N add_moment envelopes v_1..v_N, the
\* placeholder of the i-th add bears v_i for every i and the pending queue is
\* empty.
C1_InOrderReconciliation ==
    InOrderScenario =>
        /\ tempQueue = <<>>
        /\ \A i \in 1 .. tempID : Bears(i - 1, addLog[i])

C1_Witness ==
    /\ InOrderScenario
    /\ tempID = 2
    /\ addLog[1] # addLog[2]
    /\ Bears(0, addLog[1]) /\ Bears(1, addLog[2])

\* C2: every add_moment envelope the page has sent carries the identifier its
\* own upload was stored under, and that upload succeeded.
C2_EnvelopeCarriesOwnUpload ==
    \A i \in DOMAIN sent :
        sent[i].type = "add_moment" =>
            /\ uploads[sent[i].upload].status = "ok"
            /\ sent[i].value = uploads[sent[i].upload].key

\* C3: an add_moment envelope received while the pending queue is non-empty
\* removes the oldest pending tempID from the queue, relabels that
\* placeholder with the envelope's value whatever it is, and inserts nothing.
C3_PositionalMatching ==
    [][(AddStep /\ tempQueue # <<>>) =>
          LET k == Head(tempQueue)
              v == json'.value
          IN  /\ tempQueue' = Tail(tempQueue)
              /\ Len(moments') = Len(moments)
              /\ \E j \in DOMAIN moments :
                    /\ moments[j] = Placeholder(k)
                    /\ moments'[j].temp = k
                    /\ moments'[j].id = v
                    /\ \A i \in DOMAIN moments : i # j => moments'[i] = moments[i]
      ]_vars

\* two local adds A then B, and the first envelope received carried B's
\* identifier: A's placeholder bears it
C3_Witness ==
    /\ Len(uploads) = 2
    /\ addLog = <<uploads[2].key>>
    /\ Bears(0, uploads[2].key)
    /\ tempQueue = <<1>>

\* C4: an add_moment envelope received while the pending queue is empty
\* inserts exactly one new item bearing its value and leaves every rendered
\* item, the pending queue and tempID unchanged.
C4_EmptyQueueInserts ==
    [][(AddStep /\ tempQueue = <<>>) =>
          /\ tempQueue' = <<>>
          /\ tempID' = tempID
          /\ Len(moments') = Len(moments) + 1
          /\ \E j \in DOMAIN moments' :
                /\ moments'[j].id = json'.value
                /\ moments'[j].temp = Undefined
                /\ RemoveAt(moments', j) = moments
      ]_vars

C4_Witness ==
    /\ json.type = "add_moment"
    /\ tempQueue = <<>>
    /\ Len(moments) >= 2
    /\ moments[1] = NewMoment(json.value)
    /\ \E j \in DOMAIN moments : moments[j].temp # Undefined

\* C5: once an upload has failed, the placeholder created for it is neither
\* in the pending queue nor rendered.
C5_FailedUploadEvicted ==
    \A u \in DOMAIN uploads :
        uploads[u].status = "failed" =>
            /\ (u - 1) \notin Range(tempQueue)
            /\ getElementById(moments, TempName(u - 1)) = 0

\* C6: the element created as tempmoment_k is relabelled by at most one
\* add_moment envelope, and once it has been, k is not in the pending queue.
C6_ConsumedAtMostOnce ==
    \A k \in DOMAIN consumed :
        /\ consumed[k] <= 1
        /\ consumed[k] = 1 => k \notin Range(tempQueue)

C6_Witness ==
    /\ consumed[0] = 1
    /\ tempQueue = <<1>>
    /\ nRecv >= 2

\* C7: tempID only increases and every new placeholder gets an id never
\* issued before; a placeholder reconciled by an envelope bears that
\* envelope's value and keeps it while it is rendered, and an envelope only
\* looks up a tempID that no envelope has consumed.
C7_CanonicalIdentifier ==
    [][/\ tempID' >= tempID
       /\ \A j \in DOMAIN moments' :
             (moments'[j].temp # Undefined /\ moments'[j].temp >= tempID) =>
                 /\ tempID' > moments'[j].temp
                 /\ moments'[j] = Placeholder(tempID)
                 /\ \A i \in DOMAIN moments' : moments'[i].temp = tempID => i = j
       /\ \A k \in 0 .. (tempID - 1) :
             \A v \in Values :
                 (Bears(k, v) /\ \E j \in DOMAIN moments' : moments'[j].temp = k) =>
                     \E j \in DOMAIN moments' : moments'[j].temp = k /\ moments'[j].id = v
       /\ (AddStep /\ tempQueue # <<>>) =>
             /\ consumed[Head(tempQueue)] = 0
             /\ \E j \in DOMAIN moments' :
                   moments'[j].temp = Head(tempQueue) /\ moments'[j].id = json'.value
      ]_vars

C7_Witness ==
    /\ tempID = 2
    /\ consumed[0] = 1
    /\ Bears(0, addLog[1])
    /\ Len(addLog) >= 2
    /\ Bears(1, TempName(1))

\* C8: a delete_moment envelope removes at most the rendered item bearing its
\* value and changes nothing else; with no such item the state is unchanged;
\* and after the step a second identical envelope would change nothing.
C8_DeleteIdempotent ==
    [][DeleteStep =>
          LET v == json'.value
              j == getElementById(moments, v)
          IN  /\ tempQueue' = tempQueue /\ tempID' = tempID
              /\ moments' = (IF j = 0 THEN moments ELSE RemoveAt(moments, j))
              /\ removeElement(moments', v) = moments'
      ]_vars

\* the part of C8 that does not speak of a second envelope
C8_DeleteFrame ==
    [][DeleteStep =>
          LET v == json'.value
              j == getElementById(moments, v)
          IN  /\ tempQueue' = tempQueue /\ tempID' = tempID
              /\ moments' = (IF j = 0 THEN moments ELSE RemoveAt(moments, j))
      ]_vars

====
